---- MODULE Spec2Model ----
(***************************************************************************)
(* persistimer: a Redis-backed one-shot timer manager (src/timer.go).      *)
(*                                                                         *)
(* The store is a sorted set (member = timer ID, score = deadline in Unix  *)
(* seconds) and one expiring key per timer holding its context.  One       *)
(* background goroutine polls the sorted set with BZPOPMIN; callers        *)
(* register and cancel timers with two-command pipelines.  A go-redis      *)
(* Pipeline is not a MULTI/EXEC transaction: its commands are executed in  *)
(* order, but commands of other connections may run between them.          *)
(*                                                                         *)
(* Time is the Unix clock in whole seconds, the only form in which the     *)
(* poller reads it (time.Now().Unix(), line 64).                           *)
(***************************************************************************)
EXTENDS Integers, Sequences, FiniteSets, TLC

\* ---------------------------------------------------------------- bounds
MaxCalls == 2       \* AddTimer/DelTimer calls issued in one behaviour
MaxDeadline == 1    \* near deadlines are 0..MaxDeadline
FarDeadline == 700  \* one deadline far beyond every fixed delay of the code
MaxTime == 1        \* the clock advances second by second up to here
Cap == 1            \* capacity of the notification channel (NewManager's cap)

\* ------------------------------------------------------ program constants
Redundancy == 600   \* time.Minute * 10
Backoff == 3        \* time.Sleep(3 * time.Second)
ChanWait == 3       \* time.After(3 * time.Second)
PollHorizon == 60   \* BZPopMin(time.Minute, ...)

IDs == {1, 2}       \* the timer IDs, "1" and "2" as in Test_timer
Callers == {1, 2}   \* the caller goroutines: at most one pipeline in flight each
Deadlines == (0..MaxDeadline) \cup {FarDeadline}
NoScore == -1       \* the ID is not a member of the sorted set
NoID == 0
NoCtx == 0
Name == "timer"     \* the Manager's name: sorted-set key and context-key prefix

\* Mutant: the ID is left out of the key, all timers share one context key.
ContextKey_Shared(i) == <<Name, 1>>

\* fmt.Sprintf("%s_%s", mgr.name, id)
ContextKey(i) == <<Name, i>>
Keys == {ContextKey(i) : i \in IDs}

\* The context a caller passes in its n-th call, for ID i with deadline d:
\* opaque to the program, different in every call, and naming the ID
\* ("ctx1" for "1" in Test_timer) and the deadline it was passed with.
Context(i, n, d) == (d * 10 + n) * 10 + i
CtxID(c) == c % 10
CtxDeadline(c) == c \div 100

VARIABLES
  now,      \* the wall clock, Unix seconds
  zset,     \* the sorted set mgr.name: ID -> score, NoScore when absent
  kv,       \* the context keys: key -> [val, exp], val = NoCtx when absent
  notifys,  \* the channel mgr.notifys: a sequence of Timer
  pc,       \* where the background goroutine is
  id,       \* background's id
  deadline, \* background's deadline
  delta,    \* background's delta
  ctx,      \* background's ctx
  t0,       \* the instant at which the poller's current timed wait began
  calls,    \* the pipelines in flight: [op, id, dl, n, alone], n the call's number
  nCalls,   \* AddTimer/DelTimer calls issued so far
  nAdds,    \* history: AddTimer calls issued, per ID
  lastAdd,  \* history: the last AddTimer that returned, per ID
  cancelled,\* history: per ID, how DelTimer stands against the last AddTimer (0, 1, 2)
  dropped,  \* history: IDs whose notification was dropped on overflow
  missed,   \* history: IDs whose due pop found no context to deliver
  sent,     \* history: the contexts of the notifications placed on the channel
  nSent,    \* history: notifications placed on the channel, per ID
  crashes   \* history: process restarts so far

store == <<zset, kv>>
poller == <<pc, id, deadline, delta, ctx, t0>>
hist == <<nAdds, lastAdd, cancelled, dropped, missed, sent, nSent, crashes>>
vars == <<now, zset, kv, notifys, pc, id, deadline, delta, ctx, t0, calls,
          nCalls, nAdds, lastAdd, cancelled, dropped, missed, sent, nSent,
          crashes>>

\* ------------------------------------------------------------- the store
NoEntry == [val |-> NoCtx, exp |-> 0]

\* GET key: the value, or NoCtx (redis.Nil) when the key is absent or expired.
Get(k, i, t) == IF k[i].val # NoCtx /\ t < k[i].exp THEN k[i].val ELSE NoCtx

\* SET key value EX ttl
SetEx(k, i, v, ttl, t) == [k EXCEPT ![i] = [val |-> v, exp |-> t + ttl]]

\* Mutant: the context key is left behind.
Del_Noop(k, i) == k

\* DEL key
Del(k, i) == [k EXCEPT ![i] = NoEntry]

\* ZADD: insert the member or replace its score.
ZAdd(z, m, s) == [z EXCEPT ![m] = s]

\* Mutant: the whole sorted set is deleted instead of one member.
ZRem_Clear(z, m) == [o \in IDs |-> NoScore]

\* ZREM: a no-op when the member is absent.
ZRem(z, m) == [z EXCEPT ![m] = NoScore]

Members(z) == {m \in IDs : z[m] # NoScore}

\* The member BZPOPMIN returns: lowest score, ties by member order.
MinMember(z) ==
  CHOOSE m \in Members(z) :
    \A o \in Members(z) : z[m] < z[o] \/ (z[m] = z[o] /\ m <= o)

\* ----------------------------------------------------------- pure helpers
\* Mutant: an off-by-one in the due test.
NotYetDue_OffByOne(dl, t) == dl - t > 1

\* deadline - time.Now().Unix() > 0: the popped entry is not due yet.
NotYetDue(dl, t) == dl - t > 0

\* exp: ten minutes, plus the time left until the deadline when it is ahead.
TTL(d, t) == Redundancy + (IF d > t THEN d - t ELSE 0)

\* &Timer{ID: id, Ctx: ctx, Deadline: time.Unix(deadline, 0)}
NewTimer(i, c, d) == [ID |-> i, Ctx |-> c, Deadline |-> d]

NoReg == [D |-> 0, C |-> NoCtx, at |-> 0, clean |-> FALSE]

\* The calls on ID i whose pipeline has not finished.
InFlight(i) == {r \in calls : r.id = i}

\* The calls in flight, those on ID i marked as overlapped by another call.
Overlap(cs, i) ==
  {IF r.id = i THEN [r EXCEPT !.alone = FALSE] ELSE r : r \in cs}

\* The poller holds i, popped, on the path that may still deliver it.
HeldDue(i) ==
  id = i /\ pc \in {"CheckDue", "FetchContext", "Deliver", "DeliverWait"}

\* The poller holds i with its context already read: only the send is left.
HeldFetched(i) == id = i /\ pc \in {"Deliver", "DeliverWait"}

Init ==
  /\ now = 0
  /\ zset = [i \in IDs |-> NoScore]
  /\ kv = [k \in Keys |-> NoEntry]
  /\ notifys = <<>>
  /\ pc = "WaitPop"
  /\ id = NoID
  /\ deadline = 0
  /\ delta = 0
  /\ ctx = NoCtx
  /\ t0 = 0
  /\ calls = {}
  /\ nCalls = 0
  /\ nAdds = [i \in IDs |-> 0]
  /\ lastAdd = [i \in IDs |-> NoReg]
  /\ cancelled = [i \in IDs |-> 0]
  /\ dropped = {}
  /\ missed = {}
  /\ sent = {}
  /\ nSent = [i \in IDs |-> 0]
  /\ crashes = 0

\* ------------------------------------------------------------ the poller
\* `continue`: back to the top of the for loop, the locals are dead.
Continue ==
  /\ pc' = "WaitPop"
  /\ id' = NoID
  /\ deadline' = 0
  /\ delta' = 0
  /\ ctx' = NoCtx
  /\ t0' = 0

\* mgr.notifys <- t
Send(t) ==
  /\ notifys' = Append(notifys, t)
  /\ sent' = sent \cup {t.Ctx}
  /\ nSent' = [nSent EXCEPT ![t.ID] = @ + 1]

\* Mutant: the minimum is read but left in the sorted set.
BZPopMin_Peek ==
  /\ pc = "WaitPop"
  /\ Members(zset) # {}
  /\ LET m == MinMember(zset) IN
       /\ id' = m
       /\ deadline' = zset[m]
  /\ pc' = "CheckDue"
  /\ UNCHANGED <<now, store, notifys, delta, ctx, t0, calls, nCalls, hist>>

\* BZPopMin returns an entry: it is removed from the sorted set.
BZPopMin ==
  /\ pc = "WaitPop"
  /\ Members(zset) # {}
  /\ LET m == MinMember(zset) IN
       /\ zset' = ZRem(zset, m)
       /\ id' = m
       /\ deadline' = zset[m]
  /\ pc' = "CheckDue"
  /\ UNCHANGED <<now, kv, notifys, delta, ctx, t0, calls, nCalls, hist>>

\* if delta := deadline - time.Now().Unix(); delta > 0
CheckDue ==
  /\ pc = "CheckDue"
  /\ IF NotYetDue(deadline, now)
       THEN pc' = "Requeue" /\ delta' = deadline - now
       ELSE pc' = "FetchContext" /\ delta' = 0
  /\ UNCHANGED <<now, store, notifys, id, deadline, ctx, t0, calls, nCalls, hist>>

\* Mutant: the popped entry is not put back before the sleep.
Requeue_Lost ==
  /\ pc = "Requeue"
  /\ pc' = "Sleep"
  /\ t0' = now
  /\ UNCHANGED <<now, store, notifys, id, deadline, delta, ctx, calls, nCalls, hist>>

\* mgr.redis.ZAdd(mgr.name, redis.Z{Member: id, Score: deadline}); the sleep
\* of delta seconds begins.
Requeue ==
  /\ pc = "Requeue"
  /\ zset' = ZAdd(zset, id, deadline)
  /\ pc' = "Sleep"
  /\ t0' = now
  /\ UNCHANGED <<now, kv, notifys, id, deadline, delta, ctx, calls, nCalls, hist>>

\* time.Sleep(delta seconds) returns; continue.
SleepDone ==
  /\ pc = "Sleep"
  /\ now >= t0 + delta
  /\ Continue
  /\ UNCHANGED <<now, store, notifys, calls, nCalls, hist>>

\* ctx, err := mgr.redis.Get(mgr.ContextKey(id)).Result()
FetchContext ==
  /\ pc = "FetchContext"
  /\ LET v == Get(kv, ContextKey(id), now) IN
       IF v = NoCtx
         THEN /\ Continue
              /\ missed' = missed \cup {id}
         ELSE /\ ctx' = v
              /\ pc' = "Deliver"
              /\ UNCHANGED <<id, deadline, delta, t0, missed>>
  /\ UNCHANGED <<now, store, notifys, calls, nCalls, nAdds, lastAdd, cancelled,
               dropped, sent, nSent, crashes>>

\* Mutant: the context key is deleted once its notification is sent.
Deliver_DelCtx ==
  /\ pc = "Deliver"
  /\ IF Len(notifys) < Cap
       THEN /\ Send(NewTimer(id, ctx, deadline))
            /\ kv' = Del(kv, ContextKey(id))
            /\ Continue
       ELSE /\ pc' = "DeliverWait"
            /\ t0' = now
            /\ UNCHANGED <<kv, notifys, sent, nSent, id, deadline, delta, ctx>>
  /\ UNCHANGED <<now, zset, calls, nCalls, nAdds, lastAdd, cancelled, dropped,
               missed, crashes>>

\* The select is entered: with room in the channel the send happens at once,
\* otherwise the goroutine blocks and the 3 s timer starts.
Deliver ==
  /\ pc = "Deliver"
  /\ IF Len(notifys) < Cap
       THEN /\ Send(NewTimer(id, ctx, deadline))
            /\ Continue
       ELSE /\ pc' = "DeliverWait"
            /\ t0' = now
            /\ UNCHANGED <<notifys, sent, nSent, id, deadline, delta, ctx>>
  /\ UNCHANGED <<now, store, calls, nCalls, nAdds, lastAdd, cancelled, dropped,
               missed, crashes>>

\* case mgr.notifys <- t: room appeared while blocked in the select.
DeliverWaitSend ==
  /\ pc = "DeliverWait"
  /\ Len(notifys) < Cap
  /\ Send(NewTimer(id, ctx, deadline))
  /\ Continue
  /\ UNCHANGED <<now, store, calls, nCalls, nAdds, lastAdd, cancelled, dropped,
               missed, crashes>>

\* Mutant: on overflow the timer is put back into the sorted set.
DeliverTimeout_Retry ==
  /\ pc = "DeliverWait"
  /\ now >= t0 + ChanWait
  /\ dropped' = dropped \cup {id}
  /\ zset' = ZAdd(zset, id, deadline)
  /\ Continue
  /\ UNCHANGED <<now, kv, notifys, calls, nCalls, nAdds, lastAdd, cancelled,
               missed, sent, nSent, crashes>>

\* case <-time.After(3 * time.Second): the timer is dropped.
DeliverTimeout ==
  /\ pc = "DeliverWait"
  /\ now >= t0 + ChanWait
  /\ dropped' = dropped \cup {id}
  /\ Continue
  /\ UNCHANGED <<now, store, notifys, calls, nCalls, nAdds, lastAdd, cancelled,
               missed, sent, nSent, crashes>>

\* ------------------------------------------- the poller's failure branches
\* BZPopMin is issued on an empty sorted set: the goroutine blocks in it for
\* up to a minute.  Issued no later than MaxTime, to keep the clock bounded.
PopBlock ==
  /\ pc = "WaitPop"
  /\ Members(zset) = {}
  /\ now <= MaxTime
  /\ pc' = "Blocked"
  /\ t0' = now
  /\ UNCHANGED <<now, store, notifys, id, deadline, delta, ctx, calls, nCalls, hist>>

\* A member arrives while BZPopMin is blocked: it is popped.
PopWake ==
  /\ pc = "Blocked"
  /\ Members(zset) # {}
  /\ LET m == MinMember(zset) IN
       /\ zset' = ZRem(zset, m)
       /\ id' = m
       /\ deadline' = zset[m]
  /\ pc' = "CheckDue"
  /\ t0' = 0
  /\ UNCHANGED <<now, kv, notifys, delta, ctx, calls, nCalls, hist>>

\* err == redis.Nil: the minute passed with no data; continue.
PopNoData ==
  /\ pc = "Blocked"
  /\ Members(zset) = {}
  /\ now >= t0 + PollHorizon
  /\ Continue
  /\ UNCHANGED <<now, store, notifys, calls, nCalls, hist>>

\* Mutant: the goroutine returns on a pop error.
PopError_Fatal ==
  /\ pc \in {"WaitPop", "Blocked"}
  /\ now <= MaxTime
  /\ pc' = "Exit"
  /\ t0' = now
  /\ UNCHANGED <<now, store, notifys, id, deadline, delta, ctx, calls, nCalls, hist>>

\* err != nil && err != redis.Nil: a warning is logged and the 3 s sleep
\* begins.  Errors occur no later than MaxTime, to keep the clock bounded.
PopError ==
  /\ pc \in {"WaitPop", "Blocked"}
  /\ now <= MaxTime
  /\ pc' = "Backoff"
  /\ t0' = now
  /\ UNCHANGED <<now, store, notifys, id, deadline, delta, ctx, calls, nCalls, hist>>

\* time.Sleep(3 * time.Second) returns; continue.
BackoffDone ==
  /\ pc = "Backoff"
  /\ now >= t0 + Backoff
  /\ Continue
  /\ UNCHANGED <<now, store, notifys, calls, nCalls, hist>>

\* id, ok := result.Member.(string); !ok: the popped entry is logged and
\* skipped.
PopMalformed ==
  /\ pc \in {"WaitPop", "Blocked"}
  /\ Members(zset) # {}
  /\ zset' = ZRem(zset, MinMember(zset))
  /\ Continue
  /\ UNCHANGED <<now, kv, notifys, calls, nCalls, hist>>

\* Mutant: a failed context read puts the entry back to be tried again.
GetError_Retry ==
  /\ pc = "FetchContext"
  /\ zset' = ZAdd(zset, id, deadline)
  /\ Continue
  /\ missed' = missed \cup {id}
  /\ UNCHANGED <<now, kv, notifys, calls, nCalls, nAdds, lastAdd, cancelled,
               dropped, sent, nSent, crashes>>

\* Get fails with an error other than redis.Nil: same branch as not-found,
\* a warning is logged and the loop continues.
GetError ==
  /\ pc = "FetchContext"
  /\ Continue
  /\ missed' = missed \cup {id}
  /\ UNCHANGED <<now, store, notifys, calls, nCalls, nAdds, lastAdd, cancelled,
               dropped, sent, nSent, crashes>>

PollerErr ==
  \/ PopBlock \/ PopWake \/ PopNoData \/ PopError \/ BackoffDone
  \/ PopMalformed \/ GetError

Poller ==
  \/ BZPopMin \/ CheckDue \/ Requeue \/ SleepDone
  \/ FetchContext \/ Deliver \/ DeliverWaitSend \/ DeliverTimeout

\* ----------------------------------------------------------- the consumer
\* <-mgr.GetNotifys()
Recv ==
  /\ notifys # <<>>
  /\ notifys' = Tail(notifys)
  /\ UNCHANGED <<now, store, poller, calls, nCalls, hist>>

\* ------------------------------------------------------------ the callers
\* AddTimer, first half: the TTL is computed and the pipeline's SET runs.
\* The context is Context(i, n, d), n the number of the call.
AddTimer(i, d) ==
  /\ Cardinality(calls) < Cardinality(Callers)
  /\ nCalls < MaxCalls
  /\ kv' = SetEx(kv, ContextKey(i), Context(i, nCalls + 1, d), TTL(d, now), now)
  /\ calls' = Overlap(calls, i) \cup
       {[op |-> "add", id |-> i, dl |-> d, n |-> nCalls + 1, alone |-> InFlight(i) = {}]}
  /\ nCalls' = nCalls + 1
  /\ nAdds' = [nAdds EXCEPT ![i] = @ + 1]
  /\ lastAdd' = [lastAdd EXCEPT ![i] = NoReg]
  /\ cancelled' = [cancelled EXCEPT ![i] = IF InFlight(i) = {} THEN 0 ELSE 1]
  /\ dropped' = dropped \ {i}
  /\ missed' = missed \ {i}
  /\ UNCHANGED <<now, zset, notifys, poller, sent, nSent, crashes>>

\* AddTimer, second half: the pipeline's ZADD runs with the deadline in whole
\* Unix seconds as its score, and AddTimer returns nil.
AddTimerZAdd(r) ==
  /\ r.op = "add"
  /\ zset' = ZAdd(zset, r.id, r.dl)
  /\ lastAdd' = [lastAdd EXCEPT ![r.id] =
       [D |-> r.dl, C |-> Context(r.id, r.n, r.dl), at |-> now,
        clean |-> r.alone /\ ~HeldDue(r.id)]]
  /\ calls' = calls \ {r}
  /\ missed' = missed \ {r.id}
  /\ UNCHANGED <<now, kv, notifys, poller, nCalls, nAdds, cancelled, dropped, sent,
               nSent, crashes>>

\* DelTimer, first half: the pipeline's ZREM runs.
DelTimer(i) ==
  /\ Cardinality(calls) < Cardinality(Callers)
  /\ nCalls < MaxCalls
  /\ zset' = ZRem(zset, i)
  /\ calls' = Overlap(calls, i) \cup
       {[op |-> "del", id |-> i, dl |-> 0, n |-> nCalls + 1, alone |-> InFlight(i) = {}]}
  /\ nCalls' = nCalls + 1
  /\ lastAdd' = [lastAdd EXCEPT ![i] = NoReg]
  /\ cancelled' = [cancelled EXCEPT ![i] = 1]
  /\ UNCHANGED <<now, kv, notifys, poller, nAdds, dropped, missed, sent, nSent,
               crashes>>

\* DelTimer, second half: the pipeline's DEL runs and DelTimer returns nil.
\* cancelled[i] is 0 while no DelTimer(i) has been issued since the last
\* AddTimer(i) was, nor was in flight then; 2 once a DelTimer(i) has returned
\* that no other call on i overlapped and that found the poller not holding
\* i with its context already read; 1 otherwise.
DelTimerDel(r) ==
  /\ r.op = "del"
  /\ kv' = Del(kv, ContextKey(r.id))
  /\ cancelled' = [cancelled EXCEPT ![r.id] =
       IF r.alone /\ ~HeldFetched(r.id) THEN 2 ELSE 1]
  /\ calls' = calls \ {r}
  /\ UNCHANGED <<now, zset, notifys, poller, nCalls, nAdds, lastAdd, dropped,
               missed, sent, nSent, crashes>>

\* A caller goroutine enters AddTimer or DelTimer.
Issue ==
  \/ \E i \in IDs, d \in Deadlines : AddTimer(i, d)
  \/ \E i \in IDs : DelTimer(i)

\* A pipeline in flight finishes and its call returns.
Complete ==
  \/ \E r \in calls : AddTimerZAdd(r)
  \/ \E r \in calls : DelTimerDel(r)

Caller == Issue \/ Complete

\* -------------------------------------------------------------- the clock
TimedWait == pc \in {"Sleep", "DeliverWait", "Backoff", "Blocked"}
WakeAt ==
  t0 + CASE pc = "Sleep" -> delta
         [] pc = "DeliverWait" -> ChanWait
         [] pc = "Backoff" -> Backoff
         [] OTHER -> PollHorizon

\* One second passes.
Tick ==
  /\ now < MaxTime
  /\ now' = now + 1
  /\ UNCHANGED <<store, notifys, poller, calls, nCalls, hist>>

\* The clock reaches the instant at which the poller's wait ends.
Skip ==
  /\ TimedWait
  /\ now < WakeAt
  /\ now' = WakeAt
  /\ UNCHANGED <<store, notifys, poller, calls, nCalls, hist>>

\* The poller has no step to take until time passes or the store or the
\* channel changes.
PollerBlocked ==
  \/ pc = "WaitPop" /\ Members(zset) = {}
  \/ pc = "Sleep" /\ now < t0 + delta
  \/ pc = "DeliverWait" /\ Len(notifys) >= Cap /\ now < t0 + ChanWait

\* Time passes only while the poller is blocked: its steps take no time.
TickTimed == PollerBlocked /\ Tick
SkipTimed == PollerBlocked /\ Skip

\* ------------------------------------------------------- process restart
MaxCrashes == 1

\* The process dies and a new Manager on the same name starts: the store is
\* kept; the goroutine's locals, the channel and the calls in flight are lost.
Crash ==
  /\ crashes < MaxCrashes
  /\ crashes' = crashes + 1
  /\ Continue
  /\ notifys' = <<>>
  /\ calls' = {}
  /\ UNCHANGED <<now, store, nCalls, nAdds, lastAdd, cancelled, dropped, missed,
               sent, nSent>>

\* --------------------------------------------------------- specifications
Next == Poller \/ Recv \/ Caller \/ Tick \/ Skip
Spec == Init /\ [][Next]_vars

\* The background goroutine is always scheduled again, and the clock reaches
\* the end of every wait it is in.
Fairness == WF_vars(Poller) /\ WF_vars(Skip)

\* The same system with no more calls than there are timer IDs, for the
\* properties of whole behaviours.
LiveCalls == Cardinality(IDs)
IssueLive == nCalls < LiveCalls /\ Issue
NextLive == Poller \/ Recv \/ IssueLive \/ Complete \/ Tick \/ Skip
FairSpec == Init /\ [][NextLive]_vars /\ Fairness

NextTimed == Poller \/ Recv \/ Caller \/ TickTimed \/ SkipTimed
SpecTimed == Init /\ [][NextTimed]_vars

NextCrash == NextLive \/ Crash
SpecCrash == Init /\ [][NextCrash]_vars

\* The system with the store failing: pops that time out or fail, replies
\* that cannot be used, context reads that fail.
NextErr == Poller \/ PollerErr \/ Recv \/ IssueLive \/ Complete \/ Tick \/ Skip
SpecErr ==
  Init /\ [][NextErr]_vars /\ WF_vars(Poller \/ PollerErr) /\ WF_vars(Skip)

\* The callers alone, the poller not running.
NextCallers == Caller \/ Tick
SpecCallers == Init /\ [][NextCallers]_vars

\* The scenario of Test_timer: timers with deadlines ahead of the clock are
\* registered and never cancelled, and the clock runs one second further.
LateDeadlines == 1..(MaxDeadline + 1)
IssueAhead == \E i \in IDs, d \in LateDeadlines : d > now /\ AddTimer(i, d)
TickLate ==
  /\ now >= MaxTime
  /\ now < MaxTime + 1
  /\ now' = now + 1
  /\ UNCHANGED <<store, notifys, poller, calls, nCalls, hist>>
ReturnAhead == \E r \in calls : AddTimerZAdd(r)
NextAhead ==
  Poller \/ Recv \/ IssueAhead \/ ReturnAhead \/ Tick \/ TickLate \/ Skip
SpecAhead == Init /\ [][NextAhead]_vars

\* ------------------------------------------------------------------ claims
\* The step places a notification on the channel.
Sending == Len(notifys') = Len(notifys) + 1
Placed == notifys'[Len(notifys')]

\* The only AddTimer ever issued for i has returned, and no DelTimer since.
Once(i) == nAdds[i] = 1 /\ lastAdd[i] # NoReg

C3_CancelFinal ==
  [][Sending => cancelled[Placed.ID] # 2]_vars

\* The poller has popped the entry of a cancelled timer again, found it due
\* and is about to read its context.
C3_Witness ==
  \E i \in IDs : cancelled[i] = 2 /\ id = i /\ pc = "FetchContext"

\* C4: last-write-wins. After AddTimer(id, D1, C1) and then
\* AddTimer(id, D2, C2) have returned one after the other (the poller not
\* holding id on its delivery path at the second return), every notification
\* then placed for id carries C2 and D2 and is placed at a time >= D2.
C4_LastWriteWins ==
  [][Sending =>
       LET r == lastAdd[Placed.ID] IN
         (nAdds[Placed.ID] >= 2 /\ r # NoReg /\ r.clean) =>
           /\ Placed.Ctx = r.C
           /\ Placed.Deadline = r.D
           /\ now >= r.D
    ]_vars

\* The context key of i is present (set and not expired).
HasContext(i) == kv[ContextKey(i)].val # NoCtx /\ now < kv[ContextKey(i)].exp

\* C9: two-record invariant with TTL margin. With no batch in flight, every
\* member of the sorted set that has not been cancelled has a context key
\* that expires no earlier than its score plus 600 seconds and is present.
C9_TwoRecords ==
  calls = {} =>
    \A i \in IDs :
      (zset[i] # NoScore /\ cancelled[i] = 0) =>
        /\ kv[ContextKey(i)].val # NoCtx
        /\ kv[ContextKey(i)].exp >= zset[i] + Redundancy

\* C10: cancel removes both records. After DelTimer(id) has returned, with
\* no AddTimer(id) overlapping or following it, id is no member of the sorted
\* set and its context key is absent.
C10_CancelRemovesBoth ==
  \A i \in IDs :
    cancelled[i] = 2 => zset[i] = NoScore /\ kv[ContextKey(i)].val = NoCtx

\* The one AddTimer(i) ever issued returned with no other call on i
\* overlapping it, and no DelTimer(i) was issued since.
Registered(i) == Once(i) /\ lastAdd[i].clean

\* C2: eventual delivery. A timer registered by AddTimer with context C that
\* is not cancelled, not re-registered, whose context key does not expire
\* and whose notification is not dropped on a full channel eventually has a
\* notification with its ID and Ctx = C placed on the channel.
C2_EventualDelivery ==
  \A i \in IDs :
    Registered(i) ~>
      \/ Registered(i) /\ lastAdd[i].C \in sent
      \/ ~Registered(i)
      \/ i \in dropped
      \/ now >= kv[ContextKey(i)].exp

\* A registered timer with a deadline ahead of its registration was delivered
\* with the context it was registered with, and is on the channel.
C2_Witness ==
  \E i \in IDs :
    /\ Registered(i)
    /\ lastAdd[i].D > lastAdd[i].at
    /\ lastAdd[i].C \in sent
    /\ \E k \in 1..Len(notifys) :
         notifys[k].ID = i /\ notifys[k].Ctx = lastAdd[i].C

\* The timer of i is registered, uncancelled and neither delivered nor
\* dropped, and its context key is present.
Pending(i) ==
  /\ lastAdd[i] # NoReg
  /\ lastAdd[i].clean
  /\ cancelled[i] = 0
  /\ lastAdd[i].C \notin sent
  /\ i \notin dropped
  /\ HasContext(i)

\* C5: crash tolerance. When the process restarts, every timer that was
\* registered, not cancelled and not yet placed on the channel is still a
\* member of the sorted set.
C5_CrashTolerance ==
  [][crashes' = crashes + 1 =>
       \A i \in IDs : Pending(i) => zset'[i] # NoScore]_vars

\* The delay the fixed constants allow: poll horizon, backoff, channel wait.
Slack == PollHorizon + Backoff + ChanWait

\* C6: a timer registered with a deadline already in the past, with its
\* context present and the channel never used, is delivered no later than
\* Slack seconds after AddTimer returned, whatever the poller was doing.
C6_PastDeadlineBounded ==
  \A i \in IDs :
    ( /\ Registered(i)
      /\ lastAdd[i].D <= lastAdd[i].at
      /\ sent = {} /\ dropped = {}
      /\ now > lastAdd[i].at + Slack ) => lastAdd[i].C \in sent

\* C7: second-precise delivery. A timer registered with a future deadline D,
\* with its context present and the channel never used, is delivered no later
\* than Slack seconds after D, whatever other timers are registered.
C7_SecondPrecise ==
  \A i \in IDs :
    ( /\ Registered(i)
      /\ lastAdd[i].D > lastAdd[i].at
      /\ sent = {} /\ dropped = {}
      /\ now > lastAdd[i].D + Slack ) => lastAdd[i].C \in sent

\* C8: bounded-wait-then-drop. Blocked on a full channel the poller waits at
\* most 3 seconds; it leaves the wait either by sending its timer or, once
\* the 3 seconds have passed, by dropping it and returning to WaitPop with
\* the store and the channel untouched; a timer registered once and dropped
\* is in neither the sorted set nor the channel and is not delivered later.
C8_BoundedWaitThenDrop ==
  /\ [](pc = "DeliverWait" => now - t0 <= ChanWait)
  /\ [](\A i \in dropped : nAdds[i] = 1 =>
          /\ zset[i] = NoScore
          /\ \A k \in 1..Len(notifys) : notifys[k].ID # i)
  /\ [][ /\ (pc = "DeliverWait" /\ pc' # "DeliverWait") =>
             /\ pc' = "WaitPop"
             /\ \/ Sending /\ Placed = NewTimer(id, ctx, deadline)
                \/ /\ now - t0 >= ChanWait
                   /\ notifys' = notifys /\ store' = store
                   /\ id \in dropped'
         /\ (Sending /\ Placed.ID \in dropped) => nAdds[Placed.ID] > 1
       ]_vars

\* A timer registered once was dropped on a full channel that no consumer
\* emptied, and the poller is back at WaitPop.
C8_Witness ==
  \E i \in dropped :
    nAdds[i] = 1 /\ pc = "WaitPop" /\ Len(notifys) = Cap /\ now >= ChanWait

\* The step is the first half of a DelTimer(i): the call is issued.
DelIssued(i) ==
  /\ nCalls' = nCalls + 1
  /\ \E r \in calls' : r.op = "del" /\ r.id = i /\ r.n = nCalls'

\* The step is the second half of a DelTimer(i): the call returns.
DelReturned(i) ==
  /\ nCalls' = nCalls
  /\ \E r \in calls \ calls' : r.op = "del" /\ r.id = i

\* The store holds no record of i.
NoRecords(i) == zset[i] = NoScore /\ Get(kv, ContextKey(i), now) = NoCtx

\* Every context key reads after the step as it read before it.
SameContexts == \A k \in Keys : Get(kv', k, now') = Get(kv, k, now)

\* C11: DelTimer is idempotent. Both halves of a DelTimer(id) on an ID with
\* no record in the store leave the sorted set, what every context key
\* reads as, and the channel unchanged; and in every reachable store,
\* removing id's records a second time changes nothing the first removal
\* left.
C11_DelIdempotent ==
  /\ [][\A i \in IDs :
          (calls' # calls /\ NoRecords(i) /\ (DelIssued(i) \/ DelReturned(i))) =>
            zset' = zset /\ SameContexts /\ notifys' = notifys]_vars
  /\ [](\A i \in IDs :
          LET z1 == ZRem(zset, i)
              k1 == Del(kv, ContextKey(i))
          IN  ZRem(z1, i) = z1 /\ Del(k1, ContextKey(i)) = k1)

\* DelTimer has returned for an ID that was never registered, while the
\* other ID's two records stand.
C11_Witness ==
  \E i, j \in IDs :
    /\ nAdds[i] = 0 /\ cancelled[i] = 2
    /\ zset[j] # NoScore /\ HasContext(j)

\* C12: concurrent AddTimer and DelTimer on one ID are safe. With the poller
\* not running and every call returned, the store holds for each ID either
\* neither record, or a sorted-set entry and a context key whose deadline
\* and context are those of one and the same AddTimer call.
C12_ConcurrentSafe ==
  calls = {} =>
    \A i \in IDs :
      \/ zset[i] = NoScore /\ kv[ContextKey(i)].val = NoCtx
      \/ /\ zset[i] # NoScore
         /\ kv[ContextKey(i)].val # NoCtx
         /\ CtxID(kv[ContextKey(i)].val) = i
         /\ CtxDeadline(kv[ContextKey(i)].val) = zset[i]

\* C13: no cross-contamination between IDs. Every notification placed on
\* the channel carries an ID for which AddTimer was called and a context
\* that was passed to AddTimer for exactly that ID.
C13_NoCrossContamination ==
  [][Sending =>
       /\ nAdds[Placed.ID] >= 1
       /\ CtxID(Placed.Ctx) = Placed.ID
    ]_vars

\* Timers of both IDs, registered while the other's records stood, were
\* delivered.
C13_Witness ==
  /\ \A i \in IDs : Registered(i) /\ nSent[i] = 1 /\ lastAdd[i].C \in sent
  /\ \A i, j \in IDs : CtxID(lastAdd[i].C) = j <=> i = j

\* C14: no error is fatal to the poller. Wherever the poller is and whatever
\* the store answers (pop error, pop time-out with no data, unusable member,
\* context not found, context read error), it is eventually back at WaitPop.
\* A pop error begins a wait of 3 seconds that ends at WaitPop, with the
\* store and the channel untouched by the poller; a pop that times out with
\* no data leads straight back to WaitPop, with no such wait and no change.
C14_NoFatalError ==
  /\ (pc # "WaitPop") ~> (pc = "WaitPop")
  /\ [][ /\ pc' = "Backoff" =>
              /\ pc \in {"WaitPop", "Blocked", "Backoff"}
              /\ pc # "Backoff" => (t0' = now /\ store' = store /\ notifys' = notifys)
         /\ (pc = "Backoff" /\ pc' # "Backoff") =>
              /\ pc' = "WaitPop"
              /\ now >= t0 + Backoff
              /\ store' = store /\ notifys' = notifys
         /\ (pc = "Blocked" /\ pc' = "WaitPop") =>
              store' = store \/ zset' = ZRem(zset, MinMember(zset))
         /\ (pc = "Blocked" /\ pc' = "WaitPop" /\ Members(zset) = {}) =>
              /\ now >= t0 + PollHorizon
              /\ store' = store /\ notifys' = notifys
       ]_vars

\* The poller is in the wait that follows a pop error, the 3 seconds are
\* over, and a timer is waiting in the sorted set.
C14_Witness ==
  pc = "Backoff" /\ now >= t0 + Backoff /\ Members(zset) # {}

\* C15: the requeue step. A popped entry (id, deadline) found with
\* deadline > now is written back to the sorted set as the same pair before
\* the sleep begins; the sleep lasts deadline - now seconds and ends at
\* WaitPop; in that cycle no context is read and no notification is placed.
\* While the poller sleeps, only a DelTimer(id) takes id out of the sorted
\* set.
C15_RequeueStep ==
  /\ [](pc \in {"Requeue", "Sleep"} => ctx = NoCtx /\ delta > 0)
  /\ [][ /\ (pc = "CheckDue" /\ deadline > now) =>
              \/ UNCHANGED <<pc, id, deadline, delta>>
              \/ /\ pc' = "Requeue"
                 /\ delta' = deadline - now
                 /\ UNCHANGED <<id, deadline, store, notifys>>
         /\ (pc = "Requeue" /\ pc' # "Requeue") =>
              /\ pc' = "Sleep"
              /\ zset' = [zset EXCEPT ![id] = deadline]
              /\ t0' = now
              /\ UNCHANGED <<id, deadline, delta, kv, notifys>>
         /\ (pc = "Sleep" /\ pc' # "Sleep") =>
              /\ pc' = "WaitPop"
              /\ now >= t0 + delta
              /\ UNCHANGED <<store, notifys>>
         /\ pc \in {"Requeue", "Sleep"} => ~Sending
         /\ (pc = "Sleep" /\ pc' = "Sleep" /\ zset[id] # NoScore) =>
              zset'[id] # NoScore \/ DelIssued(id)
       ]_vars

\* The poller sleeps on an entry it found not yet due and wrote back: the
\* sorted set holds the same pair, the sleep is not over.
C15_Witness ==
  /\ pc = "Sleep" /\ now < t0 + delta
  /\ zset[id] = deadline /\ cancelled[id] = 0

\* C16: a missing context drops the timer. When the context read of a due
\* pop finds nothing or fails, the poller goes back to WaitPop without
\* placing a notification and without writing to the store: the ID is not
\* put back into the sorted set.  A timer registered once and dropped this
\* way is not in the sorted set and is never delivered.
C16_MissingContextDrops ==
  /\ [](\A i \in missed : nAdds[i] = 1 => zset[i] = NoScore /\ id # i)
  /\ [][ /\ (pc = "FetchContext" /\ pc' = "WaitPop") =>
              /\ id \in missed'
              /\ id' = NoID
              /\ UNCHANGED <<store, notifys>>
         /\ (pc = "FetchContext" /\ Get(kv, ContextKey(id), now) = NoCtx) =>
              pc' \in {"FetchContext", "WaitPop"}
         /\ (Sending /\ Placed.ID \in missed) => nAdds[Placed.ID] > 1
       ]_vars

\* The poller dropped the due pop of a timer registered once whose context
\* key is present (the read failed), and is back at WaitPop.
C16_Witness ==
  \E i \in missed :
    /\ nAdds[i] = 1 /\ lastAdd[i] # NoReg
    /\ HasContext(i) /\ zset[i] = NoScore
    /\ pc = "WaitPop"

\* C17: deadline ordering. Of two timers registered once each, both before
\* either is due, with deadlines D1 < D2, neither cancelled nor dropped and
\* the first one's context present, the notification of the timer with D2
\* is placed only after that of the timer with D1.
C17_DeadlineOrdering ==
  [][Sending =>
       \A i \in IDs :
         LET j == Placed.ID IN
           ( /\ i # j
             /\ Registered(i) /\ Registered(j)
             /\ lastAdd[i].D < lastAdd[j].D
             /\ lastAdd[i].at < lastAdd[i].D
             /\ lastAdd[j].at < lastAdd[i].D
             /\ cancelled[i] = 0 /\ cancelled[j] = 0
             /\ i \notin dropped /\ i \notin missed
             /\ HasContext(i)
             /\ Placed.Ctx = lastAdd[j].C ) => lastAdd[i].C \in sent
    ]_vars

\* C18: firing leaves the context record. Every step of a poll cycle that
\* delivers (pop, due test, context read, send, or the wait for room in the
\* channel) leaves every context key as it is, and leaves the sorted set as
\* it is except for the pop, which removes the popped member and nothing
\* else.
C18_DeliveryFrame ==
  [][(pc' # pc /\ pc \notin {"Requeue", "Sleep"}) =>
       /\ kv' = kv
       /\ IF pc = "WaitPop"
            THEN zset[id'] # NoScore /\ zset' = [zset EXCEPT ![id'] = NoScore]
            ELSE zset' = zset
    ]_vars

\* A timer was delivered and the poller is back at WaitPop: its context key
\* still holds its context, and the other ID's two records stand.
C18_Witness ==
  \E i, j \in IDs :
    /\ Registered(i) /\ lastAdd[i].C \in sent
    /\ zset[i] = NoScore /\ kv[ContextKey(i)].val = lastAdd[i].C
    /\ i # j /\ zset[j] # NoScore /\ HasContext(j)
    /\ pc = "WaitPop"

\* The AddTimer(i) calls that have returned.
Returned(i) ==
  nAdds[i] - Cardinality({r \in InFlight(i) : r.op = "add"})

\* C19: at-most-once delivery. For every ID the notifications placed on the
\* channel are never more than the AddTimer calls that returned for it, so
\* a timer registered once is not delivered twice, requeued or not; and
\* every send ends its poll cycle: the poller is back at WaitPop holding
\* nothing, so that one pop yields at most one notification.
C19_AtMostOnce ==
  /\ [](\A i \in IDs : nSent[i] <= Returned(i))
  /\ [][Sending =>
          /\ pc \in {"Deliver", "DeliverWait"}
          /\ nSent' = [nSent EXCEPT ![id] = @ + 1]
          /\ pc' = "WaitPop" /\ id' = NoID
       ]_vars

\* An ID was registered twice and delivered twice.
C19_Witness ==
  \E i \in IDs : Returned(i) = 2 /\ nSent[i] = 2

====
